---- MODULE Spec2Model ----
(***************************************************************************)
(* Model of the excess power scheduler (src/main.py): the control loop      *)
(* PowerScheduler.runSchedulerLoop, the measurement step                    *)
(* readHouseActivePower, the hysteresis scheduler                           *)
(* ExcessPowerScheduler.schedule and the Shelly relay actuator.             *)
(***************************************************************************)
EXTENDS Integers, Sequences, FiniteSets, TLC

(* ---------------- program constants ---------------- *)

POSITIVE_POWER_SAFETY_MARGIN == 100

NEGATIVE_POWER_SAFETY_MARGIN == -20

POWER_ON_HYSTERESIS == 4

POWER_OFF_HYSTERESIS == 2

\* range(2 * 10) in __ensureConnection
MaxConnectAttempts == 20

\* readPowerMeter: the registers of the meter read
REGISTER_LOW == 37100

REGISTER_STATUS == REGISTER_LOW

REGISTER_HIGH == 37113

REGISTER_ACTIVE_POWER == REGISTER_HIGH

\* calculateRegisterOffset / readInverterRegisters
LEN_FIELD_SIZE == 1

REGISTER_SIZE == 2

(* ---------------- bounds and input sets ---------------- *)

\* largest number of devices in the scheduler's list
MaxDevices == 2

\* rated wattages a configured device may have (heating_low, heating_high)
Wattages == {800, 1800}

\* meter active power readings (+feed-to-grid / -use-from-grid)
GridPowers == {-50, -20, 100, 500}

\* battery charge/discharge power readings (+charge / -discharge)
BatteryPowers == {-30, 0, 1500}

\* raw meter status register values: 0 offline, 1 online, 2 not in the table
MeterStatusCodes == {0, 1, 2}

\* raw battery running status values: 0..4 in the table, 5 not in the table
BatteryStatusCodes == {0, 1, 2, 3, 4, 5}

\* what the HTTP call of turnRelais can produce: a 200 response reporting
\* ison true, a 200 response reporting ison false (or no ison), a response
\* with another status code, or an exception raised by requests.post
\* (timeout, connection error)
Responses == {"ok_ison_true", "ok_ison_false", "http_error", "exception"}

\* register addresses and value sizes calculateRegisterOffset is applied to
Registers == REGISTER_LOW..REGISTER_HIGH

ValueSizes == {2, 4}

\* what a bulk register read can produce
ReadOutcomes == {"ok", "ModbusIOException", "ConnectionException"}

(* ---------------- optional values ---------------- *)

None == [known |-> FALSE, value |-> 0]

Some(v) == [known |-> TRUE, value |-> v]

(* ---------------- state ---------------- *)

VARIABLES
    devices,               \* ExcessPowerScheduler.devices: sequence of
                           \*   [wattage, state, times_wattage_exceeded]
    times_power_negative,  \* ExcessPowerScheduler.times_power_negative
    connected,             \* Sun2000Client.isConnected()
    pc,                    \* position of runSchedulerLoop
    power,                 \* excessPower of readHouseActivePower, handed to
                           \*   schedule() as `power` by runSchedulerLoop
    connectAttempts,       \* history, recorded when "connect" is watched:
                           \*   connect() calls made by this cycle's
                           \*   __ensureConnection
    firstConnectOk,        \* history, recorded with connectAttempts: the first
                           \*   attempt at which connect() would have succeeded
                           \*   (0: none)
    watch,                 \* which of the optional history variables this
                           \*   specification records (fixed by Init)
    reading,               \* history, recorded when "reading" is watched: what
                           \*   readHouseActivePower read in this cycle
                           \*   (meter.Status, gridPower, battery.Status,
                           \*   batteryPower)
    commands,              \* device commands issued by this cycle's schedule()
    outcome,               \* how this cycle's schedule() call ended
    negRun,                \* history, recorded when "runs" is watched: length
                           \*   of the current run of consecutive deficit
                           \*   samples that began with times_power_negative
                           \*   at 0 (0: no such run)
    fitRun,                \* history, recorded with negRun: per device, how
                           \*   many of the latest known samples in a row were
                           \*   above the margin and fitting (unknown samples
                           \*   are passed over)
    turnedOn,              \* history, recorded when "order" is watched: the
                           \*   devices that schedule() turned on and that are
                           \*   still on, in the order they were turned on
    offsetCall,            \* recorded when "offset" is watched: a call of
                           \*   calculateRegisterOffset: its arguments, the
                           \*   size of the buffer it indexes (0: no buffer)
                           \*   and its result
    lastCommand            \* history, recorded when "age" is watched: for one
                           \*   device dev, any of the list, the last command
                           \*   schedule() sent it, the schedule() calls since
                           \*   then (up to MaxAge) and, right after the call
                           \*   that sent it, the command before it with the
                           \*   age it had in that call

vars == <<devices, times_power_negative, connected, pc, power, connectAttempts,
          firstConnectOk,
          watch, reading, commands, outcome, negRun, fitRun, turnedOn,
          offsetCall, lastCommand>>

DeviceStates == {"on", "off", "unknown"}

Idx == 1..Len(devices)

(* ---------------- ShellyRelayDevice ---------------- *)

\* __parseShellyState on a response that was received
parseShellyState(response) ==
    IF response \in {"ok_ison_true", "ok_ison_false"}
    THEN IF response = "ok_ison_true" THEN "on" ELSE "off"
    ELSE "unknown"

\* turnRelais raises when requests.post raises; otherwise returns the state
turnRelaisRaises(response) == response = "exception"

turnRelais(response) == parseShellyState(response)

\* scheduler-call state: s = [devs, neg, cmds, raised]
\* dev.turnOn(): self.state = self.turnRelais('on'); on an exception the
\* assignment does not happen and the exception propagates
turnOn(s, i, resp) ==
    LET s1 == [s EXCEPT !.cmds = Append(@, [cmd |-> "on", dev |-> i, response |-> resp[i]])]
    IN  IF turnRelaisRaises(resp[i])
        THEN [s1 EXCEPT !.raised = TRUE]
        ELSE [s1 EXCEPT !.devs[i].state = turnRelais(resp[i])]

turnOff(s, i, resp) ==
    LET s1 == [s EXCEPT !.cmds = Append(@, [cmd |-> "off", dev |-> i, response |-> resp[i]])]
    IN  IF turnRelaisRaises(resp[i])
        THEN [s1 EXCEPT !.raised = TRUE]
        ELSE [s1 EXCEPT !.devs[i].state = turnRelais(resp[i])]

(* ---------------- ExcessPowerScheduler ---------------- *)

\* variant: only the counters of devices that are on are reset
resetCountersOfOnDevices(devs) ==
    [i \in DOMAIN devs |->
        IF devs[i].state = "on"
        THEN [devs[i] EXCEPT !.times_wattage_exceeded = 0]
        ELSE devs[i]]

resetAllDeviceCounters(devs) ==
    [i \in DOMAIN devs |-> [devs[i] EXCEPT !.times_wattage_exceeded = 0]]

IsSurplus(p) == p > POSITIVE_POWER_SAFETY_MARGIN

\* variant: the lower margin itself counts as a deficit
IsDeficitInclusive(p) == p <= NEGATIVE_POWER_SAFETY_MARGIN

IsDeficit(p) == p < NEGATIVE_POWER_SAFETY_MARGIN

\* variant: the device's wattage is not looked at
FitsAnyWattage(p, wattage) == (p + POSITIVE_POWER_SAFETY_MARGIN) > 0

Fits(p, wattage) == (p + POSITIVE_POWER_SAFETY_MARGIN) > wattage

\* variant: the device is turned on one fitting sample early
OnThresholdEarly(n) == n >= POWER_ON_HYSTERESIS - 1

\* variant: the device is turned on when the counter has passed the threshold
OnThresholdPassed(n) == n > POWER_ON_HYSTERESIS

OnThresholdReached(n) == n >= POWER_ON_HYSTERESIS

OffThresholdReached(n) == n > POWER_OFF_HYSTERESIS

\* variant: the loop stops at the first device that is off, fired or not
RECURSIVE TurnOnLoopFirstOffOnly(_, _, _, _)
TurnOnLoopFirstOffOnly(i, s, p, resp) ==
    IF i > Len(s.devs) THEN s
    ELSE IF s.devs[i].state = "off"
    THEN LET s1 == IF Fits(p, s.devs[i].wattage)
                   THEN [s EXCEPT !.devs[i].times_wattage_exceeded = @ + 1]
                   ELSE s
         IN  IF OnThresholdReached(s1.devs[i].times_wattage_exceeded)
             THEN LET s2 == turnOn(s1, i, resp)
                  IN  IF s2.raised THEN s2
                      ELSE [s2 EXCEPT !.devs = resetAllDeviceCounters(@)]
             ELSE s1
    ELSE TurnOnLoopFirstOffOnly(i + 1, s, p, resp)

\* variant: every device that is not on is a candidate
RECURSIVE TurnOnLoopNotOn(_, _, _, _)
TurnOnLoopNotOn(i, s, p, resp) ==
    IF i > Len(s.devs) THEN s
    ELSE IF s.devs[i].state # "on"
    THEN LET s1 == IF Fits(p, s.devs[i].wattage)
                   THEN [s EXCEPT !.devs[i].times_wattage_exceeded = @ + 1]
                   ELSE s
         IN  IF OnThresholdReached(s1.devs[i].times_wattage_exceeded)
             THEN LET s2 == turnOn(s1, i, resp)
                  IN  IF s2.raised THEN s2
                      ELSE [s2 EXCEPT !.devs = resetAllDeviceCounters(@)]
             ELSE TurnOnLoopNotOn(i + 1, s1, p, resp)
    ELSE TurnOnLoopNotOn(i + 1, s, p, resp)

\* for dev in self.devices: ... (surplus branch), from device i on
RECURSIVE TurnOnLoop(_, _, _, _)
TurnOnLoop(i, s, p, resp) ==
    IF i > Len(s.devs) THEN s
    ELSE IF s.devs[i].state = "off"
    THEN LET s1 == IF Fits(p, s.devs[i].wattage)
                   THEN [s EXCEPT !.devs[i].times_wattage_exceeded = @ + 1]
                   ELSE s
         IN  IF OnThresholdReached(s1.devs[i].times_wattage_exceeded)
             THEN LET s2 == turnOn(s1, i, resp)
                  IN  IF s2.raised THEN s2
                      ELSE [s2 EXCEPT !.devs = resetAllDeviceCounters(@)]
             ELSE TurnOnLoop(i + 1, s1, p, resp)
    ELSE TurnOnLoop(i + 1, s, p, resp)

\* variant: the scan ends before the first device of the list
RECURSIVE TurnOffLoopNotFirst(_, _, _)
TurnOffLoopNotFirst(i, s, resp) ==
    IF i < 2 THEN s
    ELSE IF s.devs[i].state = "on"
    THEN turnOff(s, i, resp)
    ELSE TurnOffLoopNotFirst(i - 1, s, resp)

\* variant: the break after turnOff is missing
RECURSIVE TurnOffLoopNoBreak(_, _, _)
TurnOffLoopNoBreak(i, s, resp) ==
    IF i < 1 \/ s.raised THEN s
    ELSE IF s.devs[i].state = "on"
    THEN TurnOffLoopNoBreak(i - 1, turnOff(s, i, resp), resp)
    ELSE TurnOffLoopNoBreak(i - 1, s, resp)

\* variant: the devices are scanned in list order, not reversed
RECURSIVE TurnOffLoopForward(_, _, _)
TurnOffLoopForward(i, s, resp) ==
    LET j == Len(s.devs) - i + 1
    IN  IF i < 1 THEN s
        ELSE IF s.devs[j].state = "on"
        THEN turnOff(s, j, resp)
        ELSE TurnOffLoopForward(i - 1, s, resp)

\* for dev in reversed(self.devices): ... (deficit branch), from device i down
RECURSIVE TurnOffLoop(_, _, _)
TurnOffLoop(i, s, resp) ==
    IF i < 1 THEN s
    ELSE IF s.devs[i].state = "on"
    THEN turnOff(s, i, resp)
    ELSE TurnOffLoop(i - 1, s, resp)

\* variant: an unknown sample is handled like a sample of 0 watts
scheduleUnknownAsZero(s, p, resp) ==
    IF IsSurplus(p.value)
    THEN TurnOnLoop(1, [s EXCEPT !.neg = 0], p.value, resp)
    ELSE IF IsDeficit(p.value)
    THEN LET s1 == [s EXCEPT !.neg = @ + 1]
         IN  IF OffThresholdReached(s1.neg)
             THEN LET s2 == TurnOffLoop(Len(s1.devs), s1, resp)
                  IN  IF s2.raised THEN s2 ELSE [s2 EXCEPT !.neg = 0]
             ELSE s1
    ELSE [s EXCEPT !.neg = 0]

\* schedule(power), with resp[i] the response device i's relay would give
schedule(s, p, resp) ==
    IF ~p.known THEN s
    ELSE IF IsSurplus(p.value)
    THEN TurnOnLoop(1, [s EXCEPT !.neg = 0], p.value, resp)
    ELSE IF IsDeficit(p.value)
    THEN LET s1 == [s EXCEPT !.neg = @ + 1]
         IN  IF OffThresholdReached(s1.neg)
             THEN LET s2 == TurnOffLoop(Len(s1.devs), s1, resp)
                  IN  IF s2.raised THEN s2 ELSE [s2 EXCEPT !.neg = 0]
             ELSE s1
    ELSE [s EXCEPT !.neg = 0]

(* ---------------- Sun2000Client / PowerScheduler ---------------- *)

MeterStatus(code) ==
    IF code = 0 THEN "offline" ELSE IF code = 1 THEN "online" ELSE "None"

RunningStatus(code) ==
    CASE code = 0 -> "offline"
      [] code = 1 -> "standby"
      [] code = 2 -> "running"
      [] code = 3 -> "fault"
      [] code = 4 -> "sleep mode"
      [] OTHER -> "None"

\* variant: a missing battery reading is left out and the grid power returned
excessPowerOfPartial(gridPower, batteryPower) ==
    IF ~gridPower.known THEN None
    ELSE IF ~batteryPower.known THEN Some(gridPower.value)
    ELSE LET g == gridPower.value
             b == batteryPower.value
         IN  IF b < 0 /\ g <= 0 THEN Some(b + g)
             ELSE IF b >= 0 /\ g <= 0 THEN Some(g + b)
             ELSE IF b < 0 /\ g >= 0 THEN Some(b - g)
             ELSE Some(g + b)

\* variant: the plain sum in every quadrant
excessPowerOfSum(gridPower, batteryPower) ==
    IF ~gridPower.known \/ ~batteryPower.known THEN None
    ELSE Some(gridPower.value + batteryPower.value)

\* the four-quadrant rule of readHouseActivePower
excessPowerOf(gridPower, batteryPower) ==
    IF ~gridPower.known \/ ~batteryPower.known THEN None
    ELSE LET g == gridPower.value
             b == batteryPower.value
         IN  IF b < 0 /\ g <= 0 THEN Some(b + g)
             ELSE IF b >= 0 /\ g <= 0 THEN Some(g + b)
             ELSE IF b < 0 /\ g >= 0 THEN Some(b - g)
             ELSE IF b >= 0 /\ g >= 0 THEN Some(g + b)
             ELSE Some(g)

\* the locals of readHouseActivePower after the two reads: gridPower is set
\* only when the meter is online, batteryPower only when the battery is running
readingOf(meterCode, meterPower, batteryCode, batteryPower) ==
    [meter        |-> MeterStatus(meterCode),
     gridPower    |-> IF MeterStatus(meterCode) = "online"
                      THEN Some(meterPower) ELSE None,
     battery      |-> RunningStatus(batteryCode),
     batteryPower |-> IF RunningStatus(batteryCode) = "running"
                      THEN Some(batteryPower) ELSE None]

\* the locals when a read raised: neither status was obtained
NoReading ==
    [meter |-> "n/a", gridPower |-> None, battery |-> "n/a", batteryPower |-> None]

\* the body of the try block after __ensureConnection, for readings received
houseActivePower(meterCode, meterPower, batteryCode, batteryPower) ==
    LET rd == readingOf(meterCode, meterPower, batteryCode, batteryPower)
    IN  excessPowerOf(rd.gridPower, rd.batteryPower)

\* everything readHouseActivePower can read and compute from readings it
\* received: the locals and the excess power
ReceivedReadings ==
    {[reading |-> readingOf(mc, mp, bc, bp),
      power   |-> houseActivePower(mc, mp, bc, bp)] :
        mc \in MeterStatusCodes, mp \in GridPowers,
        bc \in BatteryStatusCodes, bp \in BatteryPowers}

\* the same with the locals left out, for specifications that do not record
\* them (the excess power values are the same)
ReceivedPowers ==
    {[reading |-> NoReading, power |-> rp.power] : rp \in ReceivedReadings}

\* the slice calculateRegisterOffset returns, or the ValueError it raises
Slice(start, stop) == [raised |-> FALSE, start |-> start, stop |-> stop]

ValueError == [raised |-> TRUE, start |-> 0, stop |-> 0]

\* variant: the length byte at the front of the buffer is not skipped
calculateRegisterOffsetNoLenField(firstRegister, readRegister, valueSize) ==
    IF firstRegister > readRegister THEN ValueError
    ELSE Slice((readRegister - firstRegister) * REGISTER_SIZE,
               valueSize + (readRegister - firstRegister) * REGISTER_SIZE)

calculateRegisterOffset(firstRegister, readRegister, valueSize) ==
    IF firstRegister > readRegister THEN ValueError
    ELSE Slice(LEN_FIELD_SIZE + (readRegister - firstRegister) * REGISTER_SIZE,
               LEN_FIELD_SIZE + valueSize
                 + (readRegister - firstRegister) * REGISTER_SIZE)

\* readInverterRegisters: the number of registers read and the size of the
\* result, one length byte and REGISTER_SIZE bytes per register
RegisterCount(firstRegister, lastRegister) ==
    lastRegister - firstRegister + REGISTER_SIZE

BufferSize(firstRegister, lastRegister) ==
    LEN_FIELD_SIZE + REGISTER_SIZE * RegisterCount(firstRegister, lastRegister)

NotCalled == [raised |-> FALSE, start |-> 0, stop |-> 0]

NoOffsetCall ==
    [firstRegister |-> 0, readRegister |-> 0, valueSize |-> 0,
     bufferSize |-> 0, result |-> NotCalled]

\* the calls of calculateRegisterOffset that are looked at
OffsetCalls ==
    {[firstRegister |-> a, readRegister |-> r, valueSize |-> w,
      bufferSize |-> 0, result |-> NotCalled] :
        a \in Registers, r \in Registers, w \in ValueSizes}

(* ---------------- initial state ---------------- *)

\* the state after construction; w is the set of optional history variables
\* the specification records
\* the age of a command is counted up to the number of calls in which the
\* opposite command would be chatter
MaxAge(cmd) ==
    IF cmd = "on" THEN POWER_OFF_HYSTERESIS - 1 ELSE POWER_ON_HYSTERESIS - 1

NoCommand(i) ==
    [dev |-> i, cmd |-> "none", age |-> 0, prev |-> [cmd |-> "none", age |-> 0]]

InitWatching(w) ==
    /\ watch = w
    /\ \E n \in 0..MaxDevices :
         devices \in [1..n -> [wattage : Wattages, state : DeviceStates,
                               times_wattage_exceeded : {0}]]
    /\ times_power_negative = 0
    /\ connected = FALSE
    /\ pc = "ensureConnection"
    /\ power = None
    /\ connectAttempts = 0
    /\ firstConnectOk = 0
    /\ reading = NoReading
    /\ commands = <<>>
    /\ outcome = "none"
    /\ negRun = 0
    /\ fitRun = [i \in DOMAIN devices |-> 0]
    /\ turnedOn = <<>>
    /\ offsetCall \in (IF "offset" \in w THEN OffsetCalls ELSE {NoOffsetCall})
    /\ \E i \in (IF "age" \in w /\ devices # <<>> THEN DOMAIN devices ELSE {0}) :
         lastCommand = NoCommand(i)

Init == InitWatching({"runs"})

(* ---------------- actions ---------------- *)

\* variant: the loop makes one attempt more
RECURSIVE connectLoopOneMore(_, _)
connectLoopOneMore(i, firstOk) ==
    IF i > MaxConnectAttempts THEN [attempts |-> i, connected |-> FALSE]
    ELSE IF i + 1 = firstOk THEN [attempts |-> i + 1, connected |-> TRUE]
    ELSE connectLoopOneMore(i + 1, firstOk)

\* for i in range(2 * 10): if connect(): break; else sleep(30), after i
\* attempts, with firstOk the first attempt at which connect() succeeds
RECURSIVE connectLoop(_, _)
connectLoop(i, firstOk) ==
    IF i >= MaxConnectAttempts THEN [attempts |-> i, connected |-> FALSE]
    ELSE IF i + 1 = firstOk THEN [attempts |-> i + 1, connected |-> TRUE]
    ELSE connectLoop(i + 1, firstOk)

\* what __ensureConnection can do when the socket is not open
ConnectResults ==
    {[firstOk |-> f, result |-> connectLoop(0, f)] :
        f \in 0..(MaxConnectAttempts + 1)}

\* start of readHouseActivePower: excessPower = None, then
\* __ensureConnection: nothing when connected; else up to MaxConnectAttempts
\* connect() calls, stopping at the first that succeeds. The socket may also
\* have been closed by the peer since the last cycle.
ensureConnection ==
    /\ pc = "ensureConnection"
    /\ \E open \in (IF connected THEN BOOLEAN ELSE {FALSE}) :
         IF open
         THEN /\ connected' = TRUE
              /\ connectAttempts' = 0
              /\ firstConnectOk' = 0
         ELSE \E c \in ConnectResults :
                /\ connected' = c.result.connected
                /\ connectAttempts' =
                     IF "connect" \in watch THEN c.result.attempts ELSE 0
                /\ firstConnectOk' = IF "connect" \in watch THEN c.firstOk ELSE 0
    /\ power' = None
    /\ commands' = <<>>
    /\ outcome' = "none"
    /\ pc' = "read"
    /\ UNCHANGED <<devices, times_power_negative, watch, reading, negRun, fitRun,
                   turnedOn, offsetCall, lastCommand>>

\* readHouseActivePower after __ensureConnection: readPowerMeter, readBattery
\* and the excess power rule; ModbusIOException and ConnectionException are
\* caught and leave excessPower None
readHouseActivePower ==
    /\ pc = "read"
    /\ \/ \E r \in ReadOutcomes \ {"ok"}, c \in BOOLEAN :
            /\ (~connected) => r = "ConnectionException"
            /\ power' = None
            /\ reading' = NoReading
            /\ connected' = (connected /\ c)
       \/ /\ connected
          /\ \E rp \in (IF "reading" \in watch THEN ReceivedReadings
                                                    ELSE ReceivedPowers) :
                /\ power' = rp.power
                /\ reading' = rp.reading
          /\ UNCHANGED connected
    /\ pc' = "schedule"
    /\ connectAttempts' = 0
    /\ firstConnectOk' = 0
    /\ UNCHANGED <<devices, times_power_negative, watch, commands, outcome,
                   negRun, fitRun, turnedOn, offsetCall, lastCommand>>

MaxNegRun == POWER_OFF_HYSTERESIS + 2

\* device i received the command cmd in the schedule() call of this step
Commanded(cmd, i) ==
    \E k \in 1..Len(commands') : commands'[k].cmd = cmd /\ commands'[k].dev = i

\* the sequence sq without the entries that fail keep
RECURSIVE Keep(_, _)
Keep(sq, keep) ==
    IF sq = <<>> THEN <<>>
    ELSE IF Head(sq) \in keep THEN <<Head(sq)>> \o Keep(Tail(sq), keep)
    ELSE Keep(Tail(sq), keep)

\* self.scheduler.schedule(power), then the sleep; an exception raised in
\* schedule() is caught nowhere and ends the process. r is what the relay
\* answers to a command issued in this call.
runSchedule ==
    /\ pc = "schedule"
    /\ \E r \in Responses :
         LET resp == [i \in Idx |-> r]
             s0 == [devs |-> devices, neg |-> times_power_negative,
                    cmds |-> <<>>, raised |-> FALSE]
             s  == schedule(s0, power, resp)
         IN  /\ devices' = s.devs
             /\ times_power_negative' = s.neg
             /\ commands' = s.cmds
             /\ outcome' = IF s.raised THEN "raised" ELSE "returned"
             /\ pc' = IF s.raised THEN "crashed" ELSE "ensureConnection"
    /\ negRun' = IF "runs" \notin watch THEN negRun
                 ELSE IF power.known /\ power.value < NEGATIVE_POWER_SAFETY_MARGIN
                 THEN (IF times_power_negative = 0 THEN 1
                       ELSE IF negRun = 0 THEN 0
                       ELSE IF negRun < MaxNegRun THEN negRun + 1 ELSE negRun)
                 ELSE 0
    /\ fitRun' = [i \in Idx |->
                    IF "runs" \notin watch \/ ~power.known THEN fitRun[i]
                    ELSE IF power.value > POSITIVE_POWER_SAFETY_MARGIN
                            /\ power.value + POSITIVE_POWER_SAFETY_MARGIN
                                 > devices[i].wattage
                    THEN (IF fitRun[i] < POWER_ON_HYSTERESIS THEN fitRun[i] + 1
                          ELSE fitRun[i])
                    ELSE 0]
    /\ reading' = NoReading
    /\ turnedOn' =
         IF "order" \in watch
         THEN LET on == {i \in Idx : devices'[i].state = "on"}
                  new == {i \in Idx : Commanded("on", i)} \cap on
              IN  Keep(turnedOn, on \ new)
                    \o (IF new = {} THEN <<>> ELSE <<CHOOSE i \in new : TRUE>>)
         ELSE turnedOn
    /\ lastCommand' =
         LET i == lastCommand.dev
         IN  IF "age" \in watch /\ i \in Idx
             THEN IF \E c \in {"on", "off"} : Commanded(c, i)
                  THEN [dev |-> i,
                        cmd |-> CHOOSE c \in {"on", "off"} : Commanded(c, i),
                        age |-> 0,
                        prev |-> [cmd |-> lastCommand.cmd,
                                  age |-> lastCommand.age]]
                  ELSE IF lastCommand.cmd = "none" THEN lastCommand
                  ELSE [dev |-> i,
                        cmd |-> lastCommand.cmd,
                        age |-> IF lastCommand.age < MaxAge(lastCommand.cmd)
                                THEN lastCommand.age + 1 ELSE lastCommand.age,
                        prev |-> NoCommand(i).prev]
             ELSE lastCommand
    /\ UNCHANGED <<connected, power, connectAttempts, firstConnectOk, watch,
                   offsetCall>>

Next == ensureConnection \/ readHouseActivePower \/ runSchedule

Spec == Init /\ [][Next]_vars

\* the same program, with the readings of each cycle recorded
ReadInit == InitWatching({"reading"})

ReadSpec == ReadInit /\ [][Next]_vars

\* the program with no history recorded; runSchedulerLoop is a `while True`
\* of sequential statements, so a step that can be taken is taken
LiveInit == InitWatching({})

LiveSpec == LiveInit /\ [][Next]_vars /\ WF_vars(Next)

\* calculateRegisterOffset applied to the recorded arguments
calculateOffset ==
    /\ "offset" \in watch
    /\ offsetCall.result = NotCalled
    /\ offsetCall' =
         [offsetCall EXCEPT
            !.result = calculateRegisterOffset(offsetCall.firstRegister,
                                               offsetCall.readRegister,
                                               offsetCall.valueSize)]
    /\ UNCHANGED <<devices, times_power_negative, connected, pc, power,
                   connectAttempts, firstConnectOk, watch, reading, commands,
                   outcome, negRun, fitRun, turnedOn, lastCommand>>

\* readPowerMeter: the status and the active power are cut out of the result
\* of readInverterRegisters(REGISTER_LOW, REGISTER_HIGH)
readPowerMeter ==
    /\ "offset" \in watch
    /\ offsetCall.result = NotCalled
    /\ offsetCall.firstRegister = REGISTER_LOW
    /\ \/ offsetCall.readRegister = REGISTER_STATUS /\ offsetCall.valueSize = 2
       \/ offsetCall.readRegister = REGISTER_ACTIVE_POWER /\ offsetCall.valueSize = 4
    /\ offsetCall' =
         [offsetCall EXCEPT
            !.bufferSize = BufferSize(REGISTER_LOW, REGISTER_HIGH),
            !.result = calculateRegisterOffset(offsetCall.firstRegister,
                                               offsetCall.readRegister,
                                               offsetCall.valueSize)]
    /\ UNCHANGED <<devices, times_power_negative, connected, pc, power,
                   connectAttempts, firstConnectOk, watch, reading, commands,
                   outcome, negRun, fitRun, turnedOn, lastCommand>>

OffsetNext == calculateOffset \/ readPowerMeter

\* calculateRegisterOffset on its own, applied to every call of OffsetCalls
OffsetInit == InitWatching({"offset"})

OffsetSpec == OffsetInit /\ [][OffsetNext]_vars

\* the same program, with the connect() calls of __ensureConnection recorded
ConnectInit == InitWatching({"connect"})

ConnectSpec == ConnectInit /\ [][Next]_vars

\* the same program, with the order of the turn-ons recorded
OrderInit == InitWatching({"order"})

OrderSpec == OrderInit /\ [][Next]_vars

\* the same program, with the age of each device's last commands recorded
AgeInit == InitWatching({"age"})

AgeSpec == AgeInit /\ [][Next]_vars

TypeOK ==
    /\ pc \in {"ensureConnection", "read", "schedule", "crashed"}
    /\ times_power_negative \in 0..(POWER_OFF_HYSTERESIS + 1)
    /\ \A i \in Idx : devices[i].state \in DeviceStates

(* ---------------- properties ---------------- *)

\* the call of schedule() is the step taken from pc = "schedule"; the state
\* it leaves has outcome "returned" or "raised"
ScheduleCalled == outcome # "none"

OnCommanded == \E k \in 1..Len(commands) : commands[k].cmd = "on"

OffCommanded == \E k \in 1..Len(commands) : commands[k].cmd = "off"

\* devices that are on in the current state
OnDevices == {i \in Idx : devices[i].state = "on"}

\* C1: a call of schedule() issues at most one device command in total: never
\* two turnOn, never two turnOff, never a turnOn together with a turnOff.
C1_AtMostOneCommand == Len(commands) <= 1

C1_Witness ==
    /\ outcome = "returned"
    /\ Len(commands) = 1
    /\ Cardinality(OnDevices) >= 1
    /\ commands[1].cmd = "off"

\* C2: starting with times_power_negative at 0 and a device on, a device is
\* turned off on the POWER_OFF_HYSTERESIS-th consecutive sample below the
\* negative margin, and on no earlier or later sample of the run.
C2_OffOnHysteresisThCycle ==
    (ScheduleCalled /\ power.known /\ power.value < NEGATIVE_POWER_SAFETY_MARGIN)
    => /\ (negRun = POWER_OFF_HYSTERESIS /\ OnDevices # {}) => OffCommanded
       /\ OffCommanded => negRun = POWER_OFF_HYSTERESIS

\* C3: a device is turned on only when the sample of this cycle and of each
\* of the POWER_ON_HYSTERESIS - 1 cycles immediately before it was above the
\* positive margin and fitting the device's wattage: a dead-zone, deficit or
\* non-fitting sample in between restarts the count. Cycles with an unknown
\* sample, which schedule() ignores, are passed over here, the reading most
\* favourable to the claim.
C3_OnOnlyAfterConsecutiveFits ==
    \A k \in 1..Len(commands) :
        commands[k].cmd = "on" => fitRun[commands[k].dev] >= POWER_ON_HYSTERESIS

\* C4 as stated: in the surplus branch the counter of every device after the
\* first device that is off is left unchanged.
C4_LaterCountersUnchanged ==
    [][(pc = "schedule" /\ power.known
          /\ power.value > POSITIVE_POWER_SAFETY_MARGIN)
       => \A j \in Idx :
            (\E f \in 1..(j - 1) : devices[f].state = "off")
            => devices'[j].times_wattage_exceeded
                 = devices[j].times_wattage_exceeded]_vars

\* the increment a surplus sample p gives the counter of device i
C4_Increment(i, p) ==
    IF devices[i].state = "off"
       /\ p + POSITIVE_POWER_SAFETY_MARGIN > devices[i].wattage
    THEN 1 ELSE 0

\* C4 as amended: in the surplus branch the devices are evaluated in list
\* order up to the first one that fires. When none fires, every device that is
\* off and whose wattage fits has its counter incremented by one, later
\* devices included, and every other counter is unchanged. When one fires it
\* is the first device whose counter reaches the threshold, it is the only
\* device commanded, no device after it is counted, and every counter is 0
\* when the call returns.
C4_EvaluatedUpToFirstFiring ==
    [][(pc = "schedule" /\ power.known
          /\ power.value > POSITIVE_POWER_SAFETY_MARGIN)
       => IF commands' = <<>>
          THEN \A i \in Idx :
                 devices'[i].times_wattage_exceeded
                   = devices[i].times_wattage_exceeded + C4_Increment(i, power.value)
          ELSE LET d == commands'[1].dev
               IN  /\ Len(commands') = 1
                   /\ commands'[1].cmd = "on"
                   /\ devices[d].state = "off"
                   /\ devices[d].times_wattage_exceeded + C4_Increment(d, power.value)
                        >= POWER_ON_HYSTERESIS
                   /\ \A j \in 1..(d - 1) :
                        devices[j].state = "off"
                        => devices[j].times_wattage_exceeded
                             + C4_Increment(j, power.value) < POWER_ON_HYSTERESIS
                   /\ outcome' = "returned"
                        => \A i \in Idx : devices'[i].times_wattage_exceeded = 0
                   /\ outcome' = "raised"
                        => \A j \in (d + 1)..Len(devices) :
                             devices'[j].times_wattage_exceeded
                               = devices[j].times_wattage_exceeded]_vars

C4_Witness ==
    /\ outcome = "returned"
    /\ commands = <<>>
    /\ power.known /\ power.value > POSITIVE_POWER_SAFETY_MARGIN
    /\ Len(devices) >= 2
    /\ devices[1].state = "off" /\ devices[1].times_wattage_exceeded > 0
    /\ devices[2].state = "off" /\ devices[2].times_wattage_exceeded > 0

\* C5: with an unknown sample the call is a no-op: every device's state and
\* counter and times_power_negative are the same before and after, and no
\* device command is issued.
C5_UnknownIsNoOp ==
    [][(pc = "schedule" /\ ~power.known)
       => /\ devices' = devices
          /\ times_power_negative' = times_power_negative
          /\ commands' = <<>>
          /\ outcome' = "returned"]_vars

C5_Witness ==
    /\ outcome = "returned"
    /\ ~power.known
    /\ times_power_negative > 0
    /\ \E i \in Idx : devices[i].times_wattage_exceeded > 0
    /\ OnDevices # {}

\* C6: whenever schedule() turns a device on, the counter of every device in
\* the list is 0 when that call returns.
C6_AllCountersResetOnTurnOn ==
    (outcome = "returned" /\ OnCommanded)
    => \A i \in Idx : devices[i].times_wattage_exceeded = 0

C6_Witness ==
    /\ outcome = "returned"
    /\ OnCommanded
    /\ \E j \in Idx :
         /\ j # commands[1].dev
         /\ devices[j].state = "off"
         /\ fitRun[j] >= 2

\* C7: for a known sample p with NEGATIVE margin <= p <= POSITIVE margin the
\* call issues no command, changes no device state, sets
\* times_power_negative to 0 and leaves every device counter unchanged.
C7_DeadZone ==
    [][(pc = "schedule" /\ power.known
          /\ NEGATIVE_POWER_SAFETY_MARGIN <= power.value
          /\ power.value <= POSITIVE_POWER_SAFETY_MARGIN)
       => /\ commands' = <<>>
          /\ outcome' = "returned"
          /\ devices' = devices
          /\ times_power_negative' = 0]_vars

C7_Witness ==
    /\ outcome = "returned"
    /\ power.known
    /\ power.value = NEGATIVE_POWER_SAFETY_MARGIN
    /\ \E i \in Idx : devices[i].times_wattage_exceeded > 0
    /\ OnDevices # {}

\* the largest element of a non-empty set of device indices
C8_Last(S) == CHOOSE i \in S : \A j \in S : j <= i

\* C8: when the deficit threshold fires, the device commanded off is the one
\* with the highest index among the devices that are on, no other device is
\* commanded or changed, no command is issued when no device is on, and
\* times_power_negative is 0 when the call returns, also when no device was on.
C8_ShedsLastOnDevice ==
    [][(pc = "schedule" /\ power.known
          /\ power.value < NEGATIVE_POWER_SAFETY_MARGIN
          /\ times_power_negative + 1 > POWER_OFF_HYSTERESIS)
       => /\ OnDevices = {} => (commands' = <<>> /\ devices' = devices)
          /\ OnDevices # {}
               => /\ Len(commands') = 1
                  /\ commands'[1].cmd = "off"
                  /\ commands'[1].dev = C8_Last(OnDevices)
                  /\ \A j \in Idx \ {C8_Last(OnDevices)} : devices'[j] = devices[j]
          /\ outcome' = "returned" => times_power_negative' = 0]_vars

C8_Witness ==
    /\ outcome = "returned"
    /\ OffCommanded
    /\ times_power_negative = 0
    /\ Len(devices) >= 2
    /\ commands[1].dev = 2
    /\ devices[1].state = "on"

\* the same case with no device on: the counter is reset, nothing commanded
C8_WitnessNoneOn ==
    /\ outcome = "returned"
    /\ power.known /\ power.value < NEGATIVE_POWER_SAFETY_MARGIN
    /\ negRun > POWER_OFF_HYSTERESIS
    /\ times_power_negative = 0
    /\ commands = <<>>

\* C9: no failure inside a cycle ends the control loop.
C9_LoopNeverExits == pc # "crashed"

\* C10: after a device control call that failed (a response with a
\* non-success status, or a timeout or connection error) the device's state
\* is unknown.
C10_FailedCommandLeavesUnknown ==
    \A k \in 1..Len(commands) :
        commands[k].response \in {"http_error", "exception"}
        => devices[commands[k].dev].state = "unknown"

\* C11: readHouseActivePower returns None (never 0 or a partial value)
\* whenever the meter status is not online or the battery status is not
\* running, also when only one of the two is unavailable, and schedule() then
\* changes nothing in that cycle.
C11_UnavailableGivesUnknown ==
    [][(pc = "schedule"
          /\ (reading.meter # "online" \/ reading.battery # "running"))
       => /\ power = None
          /\ devices' = devices
          /\ times_power_negative' = times_power_negative
          /\ commands' = <<>>]_vars

C11_Witness ==
    /\ pc = "schedule"
    /\ reading.meter = "online"
    /\ reading.gridPower.known /\ reading.gridPower.value > POSITIVE_POWER_SAFETY_MARGIN
    /\ reading.battery = "standby"
    /\ power = None
    /\ \E i \in Idx : devices[i].state = "off"
                      /\ devices[i].times_wattage_exceeded = POWER_ON_HYSTERESIS - 1

\* C17: whenever both readings are available and the battery is discharging,
\* the excess power is known and strictly negative, whatever the grid power,
\* and the schedule() call of that cycle turns no device on.
C17_DischargingIsNegative ==
    [][(pc = "schedule"
          /\ reading.gridPower.known /\ reading.batteryPower.known
          /\ reading.batteryPower.value < 0)
       => /\ power.known
          /\ power.value < 0
          /\ \A k \in 1..Len(commands') : commands'[k].cmd # "on"]_vars

C17_Witness ==
    /\ pc = "schedule"
    /\ reading.gridPower.known /\ reading.gridPower.value > POSITIVE_POWER_SAFETY_MARGIN
    /\ reading.batteryPower.known /\ reading.batteryPower.value < 0
    /\ power.known /\ power.value < NEGATIVE_POWER_SAFETY_MARGIN
    /\ \E i \in Idx : devices[i].state = "off"
                      /\ devices[i].times_wattage_exceeded = POWER_ON_HYSTERESIS - 1

\* C15: schedule(p) turns a device on only if, in that same call, p is known,
\* p is above the positive margin, the device was Off before the call and
\* p plus the positive margin exceeds the device's wattage; a sample that does
\* not fit a device never turns that device on.
C15_OnOnlyWhenSampleFits ==
    [][pc = "schedule" =>
         \A i \in Idx :
            ((\E k \in 1..Len(commands') :
                  commands'[k].cmd = "on" /\ commands'[k].dev = i)
               \/ (devices[i].state # "on" /\ devices'[i].state = "on"))
            => /\ power.known
               /\ power.value > POSITIVE_POWER_SAFETY_MARGIN
               /\ devices[i].state = "off"
               /\ power.value + POSITIVE_POWER_SAFETY_MARGIN
                    > devices[i].wattage]_vars

C15_Witness ==
    /\ outcome = "returned"
    /\ Len(devices) = 2
    /\ devices[1].wattage > devices[2].wattage
    /\ power.known
    /\ power.value + POSITIVE_POWER_SAFETY_MARGIN <= devices[1].wattage
    /\ devices[1].state = "off"
    /\ commands = <<[cmd |-> "on", dev |-> 2, response |-> "ok_ison_true"]>>
    /\ devices[2].state = "on"

\* C18: after every schedule() call that returns, every device's
\* times_wattage_exceeded is in 0..POWER_ON_HYSTERESIS-1 and
\* times_power_negative is in 0..POWER_OFF_HYSTERESIS.
C18_CounterRanges ==
    outcome = "returned" =>
       /\ \A i \in Idx :
             devices[i].times_wattage_exceeded \in 0..(POWER_ON_HYSTERESIS - 1)
       /\ times_power_negative \in 0..POWER_OFF_HYSTERESIS

C18_Witness ==
    /\ outcome = "returned"
    /\ times_power_negative = POWER_OFF_HYSTERESIS
    /\ \E i \in Idx :
          devices[i].times_wattage_exceeded = POWER_ON_HYSTERESIS - 1

\* C19: a device whose state is Unknown is never commanded by schedule(), its
\* counter is never incremented and it stays Unknown.
C19_UnknownIsNeverTouched ==
    [][\A i \in Idx :
          devices[i].state = "unknown"
          => /\ devices'[i] = devices[i]
             /\ pc = "schedule" =>
                  \A k \in 1..Len(commands') : commands'[k].dev # i]_vars

C19_Witness ==
    /\ outcome = "returned"
    /\ Len(devices) = 2
    /\ devices[1].state = "unknown"
    /\ devices[1].times_wattage_exceeded = 0
    /\ power.known
    /\ power.value + POSITIVE_POWER_SAFETY_MARGIN > devices[1].wattage
    /\ commands = <<[cmd |-> "on", dev |-> 2, response |-> "ok_ison_true"]>>

\* position of device i in the sequence sq (0: not in it)
C12_Pos(sq, i) ==
    IF \E k \in 1..Len(sq) : sq[k] = i
    THEN CHOOSE k \in 1..Len(sq) : sq[k] = i
    ELSE 0

\* C12 as stated: whenever schedule() turns a device off, every other device
\* that is still On was turned on earlier than it (said here of the devices
\* that schedule() itself turned on).
C12_ShedIsLatestTurnedOn ==
    [][pc = "schedule" =>
         \A d, e \in Idx :
            (/\ d # e
             /\ Commanded("off", d)
             /\ devices'[d].state = "off"
             /\ devices'[e].state = "on"
             /\ C12_Pos(turnedOn, d) > 0
             /\ C12_Pos(turnedOn, e) > 0)
            => C12_Pos(turnedOn, e) < C12_Pos(turnedOn, d)]_vars

\* C12, amended: devices are turned off in reverse list order: whenever
\* schedule() turns a device off, every other device that is still On stands
\* before it in the list, whenever it was turned on.
C12_ShedIsLastInList ==
    [][pc = "schedule" =>
         \A d, e \in Idx :
            (/\ d # e
             /\ Commanded("off", d)
             /\ devices'[e].state = "on")
            => e < d]_vars

C12_Witness ==
    /\ outcome = "returned"
    /\ Len(devices) = 2
    /\ commands = <<[cmd |-> "off", dev |-> 2, response |-> "ok_ison_false"]>>
    /\ devices[2].state = "off"
    /\ devices[1].state = "on"
    /\ turnedOn = <<1>>

\* C16: after schedule() turns a device on, it is not turned off within the
\* next POWER_OFF_HYSTERESIS-1 cycles, and after schedule() turns a device
\* off, it is not turned on within the next POWER_ON_HYSTERESIS-1 cycles.
C16_NoChatter ==
    [][pc = "schedule" =>
         \A i \in Idx :
            i = lastCommand.dev =>
              /\ (Commanded("off", i) /\ lastCommand.cmd = "on")
                   => lastCommand.age + 1 > POWER_OFF_HYSTERESIS - 1
              /\ (Commanded("on", i) /\ lastCommand.cmd = "off")
                   => lastCommand.age + 1 > POWER_ON_HYSTERESIS - 1]_vars

C16_Witness ==
    /\ outcome = "returned"
    /\ \E i \in Idx :
          /\ commands = <<[cmd |-> "on", dev |-> i, response |-> "ok_ison_true"]>>
          /\ devices[i].state = "on"
          /\ lastCommand = [dev |-> i, cmd |-> "on", age |-> 0,
                            prev |-> [cmd |-> "off",
                                      age |-> POWER_ON_HYSTERESIS - 1]]

C14_RegisterOffset ==
    LET A == offsetCall.firstRegister
        R == offsetCall.readRegister
        W == offsetCall.valueSize
        res == offsetCall.result
    IN  res # NotCalled =>
          /\ R >= A => /\ ~res.raised
                       /\ res.start = 1 + 2 * (R - A)
                       /\ res.stop = 1 + 2 * (R - A) + W
          /\ R < A => res = ValueError
          /\ offsetCall.bufferSize # 0 =>
               /\ A = 37100
               /\ RegisterCount(REGISTER_LOW, REGISTER_HIGH) = 15
               /\ offsetCall.bufferSize = 31
               /\ (R = REGISTER_STATUS /\ W = 2)
                    => (res.start = 1 /\ res.stop = 3)
               /\ (R = REGISTER_ACTIVE_POWER /\ W = 4)
                    => (res.start = 27 /\ res.stop = 31)
               /\ ~res.raised
               /\ res.stop <= offsetCall.bufferSize

C14_Witness ==
    /\ offsetCall.bufferSize = 31
    /\ offsetCall.readRegister = REGISTER_ACTIVE_POWER
    /\ offsetCall.result = Slice(27, 31)

\* every sample handed to schedule() is known and a deficit, every turnOff
\* is answered with the relay off, and the loop is running
C20_Sustained ==
    /\ pc # "crashed"
    /\ pc = "schedule" => (power.known /\ power.value < NEGATIVE_POWER_SAFETY_MARGIN)
    /\ \A k \in 1..Len(commands) :
          commands[k].cmd = "off" => commands[k].response = "ok_ison_false"

\* C20: if from some cycle on every sample is known and below the negative
\* margin and every turnOff succeeds, then eventually no device is On, and
\* the devices are turned off one per call, the last On device of the list
\* first.
C20_AllLoadsShed ==
    /\ (<>[]C20_Sustained) => <>[](OnDevices = {})
    /\ [][pc = "schedule" =>
            LET shed == {i \in Idx : devices[i].state = "on"
                                      /\ devices'[i].state # "on"}
            IN  /\ Cardinality(shed) <= 1
                /\ \A d \in shed : \A e \in Idx :
                      e > d => devices[e].state # "on"]_vars

C20_Witness ==
    /\ outcome = "returned"
    /\ Len(devices) = 2
    /\ power.known /\ power.value < NEGATIVE_POWER_SAFETY_MARGIN
    /\ commands = <<[cmd |-> "off", dev |-> 1, response |-> "ok_ison_false"]>>
    /\ devices[2].wattage < devices[1].wattage
    /\ OnDevices = {}

====
